---- MODULE Spec2Model ----
(***************************************************************************)
(* A model of pgtype.EnumCodec (src/pgtype/enum_codec.go): the codec that  *)
(* interns the strings it decodes in membersMap, its DecodeValue and       *)
(* DecodeDatabaseSQLValue methods, and the two scan plans that route       *)
(* through lookupAndCacheString.                                           *)
(*                                                                         *)
(* A Go string is modelled as its content together with its data pointer   *)
(* (ptr), so that "the same interned instance" and "equal content" are     *)
(* different statements.  A Go byte slice is modelled as its bytes         *)
(* together with its nil-ness, so that a nil slice (SQL NULL) and an empty *)
(* non-nil slice (the empty string) are different values.                  *)
(***************************************************************************)
EXTENDS Integers, Sequences, FiniteSets, TLC

\* Longest source buffer the model feeds to the codec.
MaxLen == 2

\* The byte values source buffers are built from: the contents are "", "a",
\* "aa", ... (the codec compares whole contents and never looks at a byte).
Bytes == {97}

RECURSIVE SeqsUpTo(_)
SeqsUpTo(n) ==
    IF n = 0 THEN {<< >>}
    ELSE SeqsUpTo(n - 1) \cup
         {Append(s, b) : s \in {t \in SeqsUpTo(n - 1) : Len(t) = n - 1}, b \in Bytes}

\* Every byte content of length at most MaxLen.
Contents == SeqsUpTo(MaxLen)

---------------------------------------------------------------------------
(* Go values *)

\* The zero value of a Go string (var s string): no bytes, nil data pointer.
ZeroString == [content |-> << >>, ptr |-> << >>]

\* A string the caller built itself: its bytes live at an address of the
\* caller's, one per content.
CallerString(b) == [content |-> b, ptr |-> <<"caller", b>>]

\* src []byte: nil (SQL NULL) or a present buffer, which may have length 0.
NilSlice == [isNil |-> TRUE, bytes |-> << >>]
Slice(b) == [isNil |-> FALSE, bytes |-> b]
Sources == {NilSlice} \cup {Slice(b) : b \in Contents}

\* interface{} results of DecodeValue: nil, or a string.
NilValue == [isNil |-> TRUE, str |-> ZeroString]
StringValue(s) == [isNil |-> FALSE, str |-> s]

\* error results: nil, the error fmt.Errorf builds, or a destination's own error.
NilError == [isNil |-> TRUE, text |-> "", shape |-> ""]
ScanNullError(shape) == [isNil |-> FALSE, text |-> "cannot scan null into ", shape |-> shape]
ScannerError == [isNil |-> FALSE, text |-> "ScanText failed", shape |-> ""]

\* pgtype.Text{String, Valid}; Text{} is the zero value.
Text(s, valid) == [String |-> s, Valid |-> valid]
ZeroText == Text(ZeroString, FALSE)

TextFormatCode == 0
BinaryFormatCode == 1
Formats == {TextFormatCode, BinaryFormatCode}

---------------------------------------------------------------------------
(* map[string]string *)

\* The nil map a zero EnumCodec holds, and the map make() returns.
NilMap == [isNil |-> TRUE, m |-> [k \in {} |-> ZeroString]]
MakeMap == [isNil |-> FALSE, m |-> [k \in {} |-> ZeroString]]

\* s, found := m[key], key given by its content: a missing key (or a nil
\* map) yields the zero string.
MapIndex(mm, key) ==
    IF ~mm.isNil /\ key \in DOMAIN mm.m
    THEN [s |-> mm.m[key], found |-> TRUE]
    ELSE [s |-> ZeroString, found |-> FALSE]

\* m[k] = v: keys are compared by content, the value keeps its identity.
MapAssign(mm, k, v) ==
    [isNil |-> FALSE,
     m |-> [x \in DOMAIN mm.m \cup {k.content} |->
                IF x = k.content THEN v ELSE mm.m[x]]]

\* string(src): the key of the lookup has src's bytes as its content.
StringOf(src) == src.bytes

Keys(c) == IF c.membersMap.isNil THEN {} ELSE DOMAIN c.membersMap.m

\* EnumCodec{}: the map is nil until the first lookup.
NewEnumCodec == [membersMap |-> NilMap]

---------------------------------------------------------------------------
(* EnumCodec *)

\* A variant that stores a new string of src's bytes as the value of the entry.
lookupAndCacheString_StoreFresh(c, src) ==
    LET c1 == IF c.membersMap.isNil THEN [c EXCEPT !.membersMap = MakeMap] ELSE c
        r == MapIndex(c1.membersMap, StringOf(src))
    IN IF r.found
       THEN [codec |-> c1, s |-> r.s, panic |-> FALSE]
       ELSE [codec |-> [c1 EXCEPT !.membersMap =
                            MapAssign(@, r.s, [content |-> src.bytes, ptr |-> <<"heap", src.bytes>>])],
             s |-> r.s, panic |-> FALSE]

\* A variant that stores the value under the key string(src).
lookupAndCacheString_KeyFromSrc(c, src) ==
    LET c1 == IF c.membersMap.isNil THEN [c EXCEPT !.membersMap = MakeMap] ELSE c
        r == MapIndex(c1.membersMap, StringOf(src))
    IN IF r.found
       THEN [codec |-> c1, s |-> r.s, panic |-> FALSE]
       ELSE [codec |-> [c1 EXCEPT !.membersMap =
                            MapAssign(@, [content |-> src.bytes, ptr |-> << >>], r.s)],
             s |-> r.s, panic |-> FALSE]

\* A variant that never makes the map.
lookupAndCacheString_NoMake(c, src) ==
    LET r == MapIndex(c.membersMap, StringOf(src))
    IN IF r.found
       THEN [codec |-> c, s |-> r.s, panic |-> FALSE]
       ELSE IF c.membersMap.isNil
       THEN [codec |-> c, s |-> r.s, panic |-> TRUE]
       ELSE [codec |-> [c EXCEPT !.membersMap = MapAssign(@, r.s, r.s)],
             s |-> r.s, panic |-> FALSE]

\* lookupAndCacheString: the map is made on first use; the key looked up is
\* string(src); on a miss the entry written is membersMap[s] = s, where s is
\* the value the failed lookup yielded.  An assignment to an entry of a nil
\* map panics.
lookupAndCacheString(c, src) ==
    LET c1 == IF c.membersMap.isNil THEN [c EXCEPT !.membersMap = MakeMap] ELSE c
        r == MapIndex(c1.membersMap, StringOf(src))
    IN IF r.found
       THEN [codec |-> c1, s |-> r.s, panic |-> FALSE]
       ELSE IF c1.membersMap.isNil
       THEN [codec |-> c1, s |-> r.s, panic |-> TRUE]
       ELSE [codec |-> [c1 EXCEPT !.membersMap = MapAssign(@, r.s, r.s)],
             s |-> r.s, panic |-> FALSE]

\* A variant without the nil test.
DecodeValue_NoNilTest(c, format, src) ==
    LET r == lookupAndCacheString(c, src)
    IN [codec |-> r.codec, val |-> StringValue(r.s), err |-> NilError,
        panic |-> r.panic]

\* A variant that tests len(src) == 0 instead of src == nil.
DecodeValue_LenTest(c, format, src) ==
    IF Len(src.bytes) = 0
    THEN [codec |-> c, val |-> NilValue, err |-> NilError, panic |-> FALSE]
    ELSE LET r == lookupAndCacheString(c, src)
         IN [codec |-> r.codec, val |-> StringValue(r.s), err |-> NilError,
             panic |-> r.panic]

DecodeValue(c, format, src) ==
    IF src.isNil
    THEN [codec |-> c, val |-> NilValue, err |-> NilError, panic |-> FALSE]
    ELSE LET r == lookupAndCacheString(c, src)
         IN [codec |-> r.codec, val |-> StringValue(r.s), err |-> NilError,
             panic |-> r.panic]

DecodeDatabaseSQLValue(c, format, src) == DecodeValue(c, format, src)

\* A variant without the nil test.
ScanString_NoNilTest(c, format, src, d) ==
    LET r == lookupAndCacheString(c, src)
    IN [codec |-> r.codec, dst |-> r.s, err |-> NilError, panic |-> r.panic]

\* scanPlanTextAnyToEnumString.Scan with plan.codec = c and dst a *string
\* that points at d.  %T of a *string is "*string".
ScanString(c, format, src, d) ==
    IF src.isNil
    THEN [codec |-> c, dst |-> d, err |-> ScanNullError("*string"), panic |-> FALSE]
    ELSE LET r == lookupAndCacheString(c, src)
         IN [codec |-> r.codec, dst |-> r.s, err |-> NilError, panic |-> r.panic]

\* scanPlanTextAnyToEnumTextScanner.Scan with plan.codec = c and dst a
\* TextScanner whose ScanText returns scanErr.  calls lists the arguments of
\* the ScanText calls the plan made.
ScanTextScanner(c, format, src, scanErr) ==
    IF src.isNil
    THEN [codec |-> c, calls |-> <<ZeroText>>, err |-> scanErr, panic |-> FALSE]
    ELSE LET r == lookupAndCacheString(c, src)
         IN IF r.panic
            THEN [codec |-> r.codec, calls |-> << >>, err |-> NilError, panic |-> TRUE]
            ELSE [codec |-> r.codec, calls |-> <<Text(r.s, TRUE)>>, err |-> scanErr,
                  panic |-> FALSE]

\* encodePlanTextCodecString.Encode: the bytes of the string, verbatim; a
\* string is never NULL, so the buffer is present even when it is empty.
EncodeString(format, s) == Slice(s.content)

---------------------------------------------------------------------------
(* Formats and plans *)

\* The int16 format codes callers pass: the two PostgreSQL formats and two
\* codes that are neither.
AllFormatCodes == Formats \cup {-1, 2}

\* The dynamic types of the values handed to PlanEncode.  string, []byte and
\* rune (int32) have no methods, so none of them is a TextValuer; a
\* fmt.Stringer and an int64 match no case.
ValueShapes == {"string", "[]uint8", "int32", "TextValuer", "fmt.Stringer", "int64"}

\* The dynamic types of the targets handed to PlanScan.
TargetShapes == {"*string", "*[]uint8", "TextScanner", "*int32", "*int64"}

\* A plan: the plan type, and the codec its codec field points at ("none"
\* for the plan types that have no such field).  NoPlan is the nil plan.
Plan(kind, ref) == [kind |-> kind, codec |-> ref]
NoPlan == Plan("nil", "none")

\* A variant that supports the text format only.
FormatSupported_TextOnly(format) == format = TextFormatCode

FormatSupported(format) == format = TextFormatCode \/ format = BinaryFormatCode

PreferredFormat == TextFormatCode

\* A variant whose cases are tested for the text format only.
PlanEncode_TextOnly(format, value) ==
    IF format = TextFormatCode
    THEN CASE value = "string" -> Plan("encodePlanTextCodecString", "none")
           [] value = "[]uint8" -> Plan("encodePlanTextCodecByteSlice", "none")
           [] value = "int32" -> Plan("encodePlanTextCodecRune", "none")
           [] value = "TextValuer" -> Plan("encodePlanTextCodecTextValuer", "none")
           [] OTHER -> NoPlan
    ELSE NoPlan

\* PlanEncode: the receiver is an unnamed value, the method cannot reach
\* membersMap; the type switch takes the first case that matches.
PlanEncode(format, value) ==
    IF format = TextFormatCode \/ format = BinaryFormatCode
    THEN CASE value = "string" -> Plan("encodePlanTextCodecString", "none")
           [] value = "[]uint8" -> Plan("encodePlanTextCodecByteSlice", "none")
           [] value = "int32" -> Plan("encodePlanTextCodecRune", "none")
           [] value = "TextValuer" -> Plan("encodePlanTextCodecTextValuer", "none")
           [] OTHER -> NoPlan
    ELSE NoPlan

\* A variant that makes the map when it resolves an interning plan.
PlanScan_MakesMap(c, self, format, target) ==
    IF format = TextFormatCode \/ format = BinaryFormatCode
    THEN CASE target = "*string" ->
                [codec |-> [c EXCEPT !.membersMap = MakeMap],
                 plan |-> Plan("scanPlanTextAnyToEnumString", self)]
           [] target = "*[]uint8" ->
                [codec |-> c, plan |-> Plan("scanPlanAnyToNewByteSlice", "none")]
           [] target = "TextScanner" ->
                [codec |-> [c EXCEPT !.membersMap = MakeMap],
                 plan |-> Plan("scanPlanTextAnyToEnumTextScanner", self)]
           [] target = "*int32" ->
                [codec |-> c, plan |-> Plan("scanPlanTextAnyToRune", "none")]
           [] OTHER -> [codec |-> c, plan |-> NoPlan]
    ELSE [codec |-> c, plan |-> NoPlan]

\* A variant that gives a byte-slice target the interning string plan.
PlanScan_ByteSliceInterned(c, self, format, target) ==
    IF format = TextFormatCode \/ format = BinaryFormatCode
    THEN CASE target \in {"*string", "*[]uint8"} ->
                [codec |-> c, plan |-> Plan("scanPlanTextAnyToEnumString", self)]
           [] target = "TextScanner" ->
                [codec |-> c, plan |-> Plan("scanPlanTextAnyToEnumTextScanner", self)]
           [] target = "*int32" ->
                [codec |-> c, plan |-> Plan("scanPlanTextAnyToRune", "none")]
           [] OTHER -> [codec |-> c, plan |-> NoPlan]
    ELSE [codec |-> c, plan |-> NoPlan]

\* A variant whose interning plans point at no codec.
PlanScan_Unbound(c, self, format, target) ==
    IF format = TextFormatCode \/ format = BinaryFormatCode
    THEN CASE target = "*string" ->
                [codec |-> c, plan |-> Plan("scanPlanTextAnyToEnumString", "none")]
           [] target = "*[]uint8" ->
                [codec |-> c, plan |-> Plan("scanPlanAnyToNewByteSlice", "none")]
           [] target = "TextScanner" ->
                [codec |-> c, plan |-> Plan("scanPlanTextAnyToEnumTextScanner", "none")]
           [] target = "*int32" ->
                [codec |-> c, plan |-> Plan("scanPlanTextAnyToRune", "none")]
           [] OTHER -> [codec |-> c, plan |-> NoPlan]
    ELSE [codec |-> c, plan |-> NoPlan]

\* PlanScan on the codec at address self, whose state is c: the receiver is
\* a pointer, so the method could write the codec; the interning plans keep
\* the pointer in their codec field.
PlanScan(c, self, format, target) ==
    IF format = TextFormatCode \/ format = BinaryFormatCode
    THEN CASE target = "*string" ->
                [codec |-> c, plan |-> Plan("scanPlanTextAnyToEnumString", self)]
           [] target = "*[]uint8" ->
                [codec |-> c, plan |-> Plan("scanPlanAnyToNewByteSlice", "none")]
           [] target = "TextScanner" ->
                [codec |-> c, plan |-> Plan("scanPlanTextAnyToEnumTextScanner", self)]
           [] target = "*int32" ->
                [codec |-> c, plan |-> Plan("scanPlanTextAnyToRune", "none")]
           [] OTHER -> [codec |-> c, plan |-> NoPlan]
    ELSE [codec |-> c, plan |-> NoPlan]

\* scanPlanAnyToNewByteSlice.Scan: a NULL source clears the destination, any
\* other source is copied into newly allocated storage.
ScanNewByteSlice(src) ==
    IF src.isNil THEN NilSlice ELSE Slice(src.bytes)

\* plan.Scan(ci, oid, format, src, dst) with dst of dynamic type target, the
\* plan's codec in state c, a *string dst pointing at d, a TextScanner dst
\* returning scanErr.  A failed type assertion (dst).(T) panics, and so does
\* a call through the nil plan.
ScanThrough(p, c, format, src, target, d, scanErr) ==
    LET out == [codec |-> c, dst |-> d, calls |-> << >>, bytes |-> NilSlice,
                err |-> NilError, panic |-> FALSE]
    IN CASE p.kind = "scanPlanTextAnyToEnumString" ->
              IF target = "*string"
              THEN LET r == ScanString(c, format, src, d)
                   IN [out EXCEPT !.codec = r.codec, !.dst = r.dst, !.err = r.err,
                                  !.panic = r.panic]
              ELSE IF src.isNil
                   THEN [out EXCEPT !.err = ScanNullError(target)]
                   ELSE [out EXCEPT !.panic = TRUE]
         [] p.kind = "scanPlanTextAnyToEnumTextScanner" ->
              IF target = "TextScanner"
              THEN LET r == ScanTextScanner(c, format, src, scanErr)
                   IN [out EXCEPT !.codec = r.codec, !.calls = r.calls, !.err = r.err,
                                  !.panic = r.panic]
              ELSE [out EXCEPT !.panic = TRUE]
         [] p.kind = "scanPlanAnyToNewByteSlice" ->
              IF target = "*[]uint8"
              THEN [out EXCEPT !.bytes = ScanNewByteSlice(src)]
              ELSE [out EXCEPT !.panic = TRUE]
         [] OTHER -> [out EXCEPT !.panic = TRUE]

---------------------------------------------------------------------------
(* One codec instance used from one flow of control *)

VARIABLES
    codec,      \* the EnumCodec instance
    dst,        \* the string a *string destination points at
    last,       \* the last call: its operation, arguments and results
    decoded,    \* per content, the instances DecodeValue has returned for it
    requested,  \* the contents passed non-NULL to a decode or an interning scan
    sync,       \* how two flows sharing the codec coordinate: "none" or "mutex"
    flows,      \* per flow of control, its position in lookupAndCacheString
    mutex,      \* the flow that holds the external mutex, or 0
    fatal,      \* the Go runtime detected concurrent map access and aborted
    other,      \* a second EnumCodec instance, at address "B"
    inst,       \* the address of the instance the last call was made on
    plan,       \* a scan plan the caller resolved once and keeps using
    fresh,      \* the last call and the *string destination of the caller
                \* that resolves a new plan before every scan
    delivered,  \* per content, the instances handed out for it and the first path
    jt,         \* a Text value handed to MarshalJSON
    jtext,      \* the JSON text MarshalJSON produced for jt
    jback       \* what UnmarshalJSON read back from jtext

seqVars == <<dst, last, decoded, requested>>
concVars == <<sync, flows, mutex, fatal>>
extraVars == <<other, inst, plan, fresh, delivered, jt, jtext, jback>>
vars == <<codec, dst, last, decoded, requested, sync, flows, mutex, fatal,
          other, inst, plan, fresh, delivered, jt, jtext, jback>>

Flows == {1, 2}

IdleFlow == [pc |-> "idle", src |-> NilSlice, s |-> ZeroString, found |-> FALSE,
             wrote |-> FALSE]

\* What is recorded of a call: the operation, its arguments (format, src, the
\* string encoded, the shape of the value or target) and its results (the
\* value, the error, the ScanText calls made and what ScanText returned, the
\* plan or the truth value returned, the bytes a byte-slice destination
\* received, a panic).
NoCall == [op |-> "none", format |-> TextFormatCode, src |-> NilSlice,
           value |-> ZeroString, val |-> NilValue, err |-> NilError, calls |-> << >>,
           shape |-> "", plan |-> NoPlan, bool |-> FALSE, bytes |-> NilSlice,
           scanErr |-> NilError, panic |-> FALSE]

Call(op, format, src, value, val, err, calls) ==
    [NoCall EXCEPT !.op = op, !.format = format, !.src = src, !.value = value,
                   !.val = val, !.err = err, !.calls = calls]

\* The contents a call passes to lookupAndCacheString.
Requested(src) == IF src.isNil THEN {} ELSE {src.bytes}

InitSeq ==
    /\ codec = NewEnumCodec
    /\ dst \in {ZeroString, CallerString(<<97, 98>>)}
    /\ last = NoCall
    /\ decoded = [b \in Contents |-> {}]
    /\ requested = {}

InitConcIdle ==
    /\ sync = "none"
    /\ flows = [f \in Flows |-> IdleFlow]
    /\ mutex = 0
    /\ fatal = FALSE

\* The Text values of the JSON checks; Text{} before any is chosen.
\* No JSON document yet, and nothing unmarshalled yet.
NoDocument == [bytes |-> << >>, from |-> "none"]
NotUnmarshalled == [text |-> ZeroText, err |-> NilError, done |-> FALSE]

\* Nothing handed out yet for a content.
NoneDelivered == [first |-> "none", strs |-> {}]

InitExtraIdle ==
    /\ other = NewEnumCodec
    /\ inst = "A"
    /\ plan = NoPlan
    /\ fresh = [call |-> NoCall, dst |-> ZeroString]
    /\ delivered = [b \in Contents |-> NoneDelivered]
    /\ jt = ZeroText
    /\ jtext = NoDocument
    /\ jback = NotUnmarshalled

Init == InitSeq /\ InitConcIdle /\ InitExtraIdle

DoDecodeValue ==
    \E format \in Formats, src \in Sources :
        LET r == DecodeValue(codec, format, src)
        IN /\ codec' = r.codec
           /\ last' = [Call("DecodeValue", format, src, ZeroString, r.val, r.err, << >>)
                          EXCEPT !.panic = r.panic]
           /\ decoded' = IF src.isNil THEN decoded
                         ELSE [decoded EXCEPT ![src.bytes] = @ \cup {r.val.str}]
           /\ requested' = requested \cup Requested(src)
           /\ UNCHANGED <<dst, concVars, extraVars>>

DoDecodeDatabaseSQLValue ==
    \E format \in Formats, src \in Sources :
        LET r == DecodeDatabaseSQLValue(codec, format, src)
        IN /\ codec' = r.codec
           /\ last' = [Call("DecodeDatabaseSQLValue", format, src, ZeroString,
                            r.val, r.err, << >>) EXCEPT !.panic = r.panic]
           /\ decoded' = IF src.isNil THEN decoded
                         ELSE [decoded EXCEPT ![src.bytes] = @ \cup {r.val.str}]
           /\ requested' = requested \cup Requested(src)
           /\ UNCHANGED <<dst, concVars, extraVars>>

DoScanString ==
    \E format \in Formats, src \in Sources :
        LET r == ScanString(codec, format, src, dst)
        IN /\ codec' = r.codec
           /\ dst' = r.dst
           /\ last' = [Call("ScanString", format, src, ZeroString, NilValue, r.err, << >>)
                          EXCEPT !.shape = "*string", !.panic = r.panic]
           /\ requested' = requested \cup Requested(src)
           /\ UNCHANGED <<decoded, concVars, extraVars>>

DoScanTextScanner ==
    \E format \in Formats, src \in Sources, scanErr \in {NilError, ScannerError} :
        LET r == ScanTextScanner(codec, format, src, scanErr)
        IN /\ codec' = r.codec
           /\ last' = [Call("ScanTextScanner", format, src, ZeroString, NilValue,
                            r.err, r.calls)
                          EXCEPT !.shape = "TextScanner", !.scanErr = scanErr,
                                 !.panic = r.panic]
           /\ requested' = requested \cup Requested(src)
           /\ UNCHANGED <<dst, decoded, concVars, extraVars>>

\* Encode a caller's string with the plain-string encode plan, then scan the
\* bytes into the *string destination with the codec's scan plan.
DoRoundTrip ==
    \E format \in Formats, b \in Contents :
        LET value == CallerString(b)
            src == EncodeString(format, value)
            r == ScanString(codec, format, src, dst)
        IN /\ codec' = r.codec
           /\ dst' = r.dst
           /\ last' = [Call("RoundTrip", format, src, value, NilValue, r.err, << >>)
                          EXCEPT !.shape = "*string", !.panic = r.panic]
           /\ requested' = requested \cup Requested(src)
           /\ UNCHANGED <<decoded, concVars, extraVars>>

DoFormatSupported ==
    \E format \in AllFormatCodes :
        /\ last' = [NoCall EXCEPT !.op = "FormatSupported", !.format = format,
                                  !.bool = FormatSupported(format)]
        /\ UNCHANGED <<codec, dst, decoded, requested, concVars, extraVars>>

DoPreferredFormat ==
    /\ last' = [NoCall EXCEPT !.op = "PreferredFormat", !.format = PreferredFormat]
    /\ UNCHANGED <<codec, dst, decoded, requested, concVars, extraVars>>

DoPlanEncode ==
    \E format \in AllFormatCodes, value \in ValueShapes :
        /\ last' = [NoCall EXCEPT !.op = "PlanEncode", !.format = format,
                                  !.shape = value, !.plan = PlanEncode(format, value)]
        /\ UNCHANGED <<codec, dst, decoded, requested, concVars, extraVars>>

DoPlanScan ==
    \E format \in AllFormatCodes, target \in TargetShapes :
        LET r == PlanScan(codec, "A", format, target)
        IN /\ codec' = r.codec
           /\ last' = [NoCall EXCEPT !.op = "PlanScan", !.format = format,
                                     !.shape = target, !.plan = r.plan]
           /\ UNCHANGED <<dst, decoded, requested, concVars, extraVars>>

\* Resolve a plan for a *[]byte target and scan through it.
DoScanByteSlice ==
    \E format \in Formats, src \in Sources :
        LET rp == PlanScan(codec, "A", format, "*[]uint8")
            r == ScanThrough(rp.plan, rp.codec, format, src, "*[]uint8", dst, NilError)
        IN /\ codec' = r.codec
           /\ dst' = r.dst
           /\ last' = [NoCall EXCEPT !.op = "ScanByteSlice", !.format = format,
                                     !.src = src, !.shape = "*[]uint8",
                                     !.plan = rp.plan, !.bytes = r.bytes,
                                     !.err = r.err, !.panic = r.panic]
           /\ UNCHANGED <<decoded, requested, concVars, extraVars>>

Next ==
    \/ DoDecodeValue
    \/ DoDecodeDatabaseSQLValue
    \/ DoScanString
    \/ DoScanTextScanner
    \/ DoRoundTrip
    \/ DoFormatSupported
    \/ DoPreferredFormat
    \/ DoPlanEncode
    \/ DoPlanScan
    \/ DoScanByteSlice

Spec == Init /\ [][Next]_vars

---------------------------------------------------------------------------
(* One codec instance shared by two flows of control.  Each flow runs one *)
(* DecodeValue; lookupAndCacheString is split at its reads and writes of  *)
(* membersMap.  Without coordination two accesses of the map that overlap *)
(* are a data race: the Go runtime may abort the program ("concurrent map *)
(* writes", "concurrent map read and map write") or let the access through.*)

InitConc ==
    /\ InitSeq
    /\ InitExtraIdle
    /\ sync \in {"none", "mutex"}
    /\ flows = [f \in Flows |-> IdleFlow]
    /\ mutex = 0
    /\ fatal = FALSE

\* Another flow is between its lookup and the end of its insert.
Overlaps(f) ==
    /\ sync = "none"
    /\ \E g \in Flows \ {f} : flows[g].pc \in {"lookup", "insert"}

\* A flow calls DecodeValue(ci, oid, format, src) on the shared codec.
FlowCall(f) ==
    /\ ~fatal
    /\ flows[f].pc = "idle"
    /\ \E src \in Sources :
          flows' = [flows EXCEPT ![f] =
                       [@ EXCEPT !.src = src,
                                 !.pc = IF sync = "mutex" THEN "lock" ELSE "decode"]]
    /\ UNCHANGED <<codec, seqVars, extraVars, sync, mutex, fatal>>

\* The caller's mutex around the call.
FlowLock(f) ==
    /\ ~fatal
    /\ flows[f].pc = "lock"
    /\ mutex = 0
    /\ mutex' = f
    /\ flows' = [flows EXCEPT ![f].pc = "decode"]
    /\ UNCHANGED <<codec, seqVars, extraVars, sync, fatal>>

FlowUnlock(f) ==
    /\ ~fatal
    /\ flows[f].pc = "unlock"
    /\ mutex = f
    /\ mutex' = 0
    /\ flows' = [flows EXCEPT ![f].pc = "done"]
    /\ UNCHANGED <<codec, seqVars, extraVars, sync, fatal>>

\* DecodeValue: if src == nil { return nil, nil }
FlowDecodeValue(f) ==
    /\ ~fatal
    /\ flows[f].pc = "decode"
    /\ flows' = [flows EXCEPT ![f].pc = IF flows[f].src.isNil THEN "return" ELSE "check"]
    /\ UNCHANGED <<codec, seqVars, extraVars, sync, mutex, fatal>>

\* lookupAndCacheString: if c.membersMap == nil
FlowCheckNil(f) ==
    /\ ~fatal
    /\ flows[f].pc = "check"
    /\ flows' = [flows EXCEPT ![f].pc = IF codec.membersMap.isNil THEN "make" ELSE "lookup"]
    /\ UNCHANGED <<codec, seqVars, extraVars, sync, mutex, fatal>>

\* c.membersMap = make(map[string]string)
FlowMake(f) ==
    /\ ~fatal
    /\ flows[f].pc = "make"
    /\ codec' = [codec EXCEPT !.membersMap = MakeMap]
    /\ flows' = [flows EXCEPT ![f].pc = "lookup"]
    /\ UNCHANGED <<seqVars, extraVars, sync, mutex, fatal>>

\* s, found := c.membersMap[string(src)]
FlowLookup(f) ==
    /\ ~fatal
    /\ flows[f].pc = "lookup"
    /\ \/ LET r == MapIndex(codec.membersMap, StringOf(flows[f].src))
          IN /\ flows' = [flows EXCEPT ![f] =
                             [@ EXCEPT !.s = r.s, !.found = r.found,
                                       !.pc = IF r.found THEN "return" ELSE "insert"]]
             /\ UNCHANGED fatal
       \/ /\ Overlaps(f)
          /\ fatal' = TRUE
          /\ UNCHANGED flows
    /\ UNCHANGED <<codec, seqVars, extraVars, sync, mutex>>

\* c.membersMap[s] = s
FlowInsert(f) ==
    /\ ~fatal
    /\ flows[f].pc = "insert"
    /\ \/ /\ codec' = [codec EXCEPT !.membersMap = MapAssign(@, flows[f].s, flows[f].s)]
          /\ flows' = [flows EXCEPT ![f] = [@ EXCEPT !.wrote = TRUE, !.pc = "return"]]
          /\ UNCHANGED fatal
       \/ /\ Overlaps(f)
          /\ fatal' = TRUE
          /\ UNCHANGED <<codec, flows>>
    /\ UNCHANGED <<seqVars, extraVars, sync, mutex>>

\* return s
FlowReturn(f) ==
    /\ ~fatal
    /\ flows[f].pc = "return"
    /\ flows' = [flows EXCEPT ![f].pc = IF sync = "mutex" THEN "unlock" ELSE "done"]
    /\ UNCHANGED <<codec, seqVars, extraVars, sync, mutex, fatal>>

NextConc ==
    \E f \in Flows :
        \/ FlowCall(f)
        \/ FlowLock(f)
        \/ FlowDecodeValue(f)
        \/ FlowCheckNil(f)
        \/ FlowMake(f)
        \/ FlowLookup(f)
        \/ FlowInsert(f)
        \/ FlowReturn(f)
        \/ FlowUnlock(f)

SpecConc == InitConc /\ [][NextConc]_vars

---------------------------------------------------------------------------
(* Two codec instances, each constructed on its own, used in any order *)

Instances == {"A", "B"}

\* The codecs by address.
Codecs == [A |-> codec, B |-> other]

\* A variant in which membersMap is one package-level variable.
StoreCodec_Global(cs, self, c) == [i \in DOMAIN cs |-> c]

\* c.membersMap = ..., c.membersMap[s] = s with c the receiver at address
\* self: the writes go to the field of that codec.
StoreCodec(cs, self, c) == [cs EXCEPT ![self] = c]

TwoDecodeValue ==
    \E self \in Instances, format \in Formats, src \in Sources :
        LET r == DecodeValue(Codecs[self], format, src)
            cs == StoreCodec(Codecs, self, r.codec)
        IN /\ codec' = cs.A
           /\ other' = cs.B
           /\ inst' = self
           /\ last' = [Call("DecodeValue", format, src, ZeroString, r.val, r.err, << >>)
                          EXCEPT !.panic = r.panic]
           /\ UNCHANGED <<dst, decoded, requested, concVars, plan, fresh, delivered,
                          jt, jtext, jback>>

TwoScanString ==
    \E self \in Instances, format \in Formats, src \in Sources :
        LET rp == PlanScan(Codecs[self], self, format, "*string")
            r == ScanThrough(rp.plan, rp.codec, format, src, "*string", dst, NilError)
            cs == StoreCodec(Codecs, self, r.codec)
        IN /\ codec' = cs.A
           /\ other' = cs.B
           /\ inst' = self
           /\ dst' = r.dst
           /\ last' = [Call("ScanString", format, src, ZeroString, NilValue, r.err, << >>)
                          EXCEPT !.shape = "*string", !.plan = rp.plan,
                                 !.panic = r.panic]
           /\ UNCHANGED <<decoded, requested, concVars, plan, fresh, delivered,
                          jt, jtext, jback>>

TwoScanTextScanner ==
    \E self \in Instances, format \in Formats, src \in Sources,
       scanErr \in {NilError, ScannerError} :
        LET rp == PlanScan(Codecs[self], self, format, "TextScanner")
            r == ScanThrough(rp.plan, rp.codec, format, src, "TextScanner", dst, scanErr)
            cs == StoreCodec(Codecs, self, r.codec)
        IN /\ codec' = cs.A
           /\ other' = cs.B
           /\ inst' = self
           /\ last' = [Call("ScanTextScanner", format, src, ZeroString, NilValue,
                            r.err, r.calls)
                          EXCEPT !.shape = "TextScanner", !.plan = rp.plan,
                                 !.scanErr = scanErr, !.panic = r.panic]
           /\ UNCHANGED <<dst, decoded, requested, concVars, plan, fresh, delivered,
                          jt, jtext, jback>>

NextTwo ==
    \/ TwoDecodeValue
    \/ TwoScanString
    \/ TwoScanTextScanner

SpecTwo == Init /\ [][NextTwo]_vars

---------------------------------------------------------------------------
(* Plan reuse.  One caller resolves a scan plan once, keeps it in plan and *)
(* scans through it on the codec at "A"; a second caller, given the same   *)
(* calls, resolves a new plan before every scan on the codec at "B".       *)

\* A variant that clears the plan's codec field when the scan is done.
ScanVia_ReleasesCodec(p, cs, format, src, target, d, scanErr) ==
    IF p.codec = "none"
    THEN LET r == ScanThrough(p, NewEnumCodec, format, src, target, d, scanErr)
         IN [plan |-> p, codecs |-> cs,
             res |-> IF p.kind \in {"scanPlanTextAnyToEnumString",
                                    "scanPlanTextAnyToEnumTextScanner"}
                        /\ r.codec # NewEnumCodec
                     THEN [r EXCEPT !.codec = NewEnumCodec, !.dst = d,
                                    !.calls = << >>, !.panic = TRUE]
                     ELSE r]
    ELSE LET r == ScanThrough(p, cs[p.codec], format, src, target, d, scanErr)
         IN [plan |-> Plan(p.kind, "none"),
             codecs |-> StoreCodec(cs, p.codec, r.codec), res |-> r]

\* plan.Scan on a plan value p: the interning plans reach the cache through
\* plan.codec, the codec at that address (a nil plan.codec panics as soon as
\* lookupAndCacheString reads c.membersMap); Scan does not write the plan.
ScanVia(p, cs, format, src, target, d, scanErr) ==
    IF p.codec = "none"
    THEN LET r == ScanThrough(p, NewEnumCodec, format, src, target, d, scanErr)
         IN [plan |-> p, codecs |-> cs,
             res |-> IF p.kind \in {"scanPlanTextAnyToEnumString",
                                    "scanPlanTextAnyToEnumTextScanner"}
                        /\ r.codec # NewEnumCodec
                     THEN [r EXCEPT !.codec = NewEnumCodec, !.dst = d,
                                    !.calls = << >>, !.panic = TRUE]
                     ELSE r]
    ELSE LET r == ScanThrough(p, cs[p.codec], format, src, target, d, scanErr)
         IN [plan |-> p, codecs |-> StoreCodec(cs, p.codec, r.codec), res |-> r]

\* The instances handed out for the content of src so far, and the path (the
\* operation) that was the first to hand one out.
Delivered(src, path, strs) ==
    IF src.isNil \/ strs = {} THEN delivered
    ELSE [delivered EXCEPT ![src.bytes] =
            [first |-> IF @.first = "none" THEN path ELSE @.first,
             strs |-> @.strs \cup strs]]

\* What is recorded of one scan and of one decode.
ScanRecord(op, format, src, target, p, scanErr, r) ==
    [Call(op, format, src, ZeroString, NilValue, r.err, r.calls)
       EXCEPT !.shape = target, !.plan = p, !.scanErr = scanErr, !.panic = r.panic]

DecodeRecord(format, src, r) ==
    [Call("DecodeValue", format, src, ZeroString, r.val, r.err, << >>)
       EXCEPT !.panic = r.panic]

InitPlans ==
    /\ InitSeq
    /\ InitConcIdle
    /\ other = NewEnumCodec
    /\ inst = "A"
    /\ plan = NoPlan
    /\ fresh = [call |-> NoCall, dst |-> dst]
    /\ delivered = [b \in Contents |-> NoneDelivered]
    /\ jt = ZeroText
    /\ jtext = NoDocument
    /\ jback = NotUnmarshalled

\* The first caller resolves the plan it will keep.
PlansResolve ==
    \E format \in Formats, target \in {"*string", "TextScanner"} :
        LET r == PlanScan(codec, "A", format, target)
        IN /\ codec' = r.codec
           /\ plan' = r.plan
           /\ last' = [NoCall EXCEPT !.op = "PlanScan", !.format = format,
                                     !.shape = target, !.plan = r.plan]
           /\ fresh' = [fresh EXCEPT !.call = NoCall]
           /\ UNCHANGED <<dst, decoded, requested, concVars, other, inst, delivered,
                          jt, jtext, jback>>

\* Both callers scan the same source into a destination of the shape the
\* kept plan was resolved for.
PlansScan ==
    \E format \in Formats, target \in {"*string", "TextScanner"}, src \in Sources,
       scanErr \in {NilError, ScannerError} :
        /\ plan # NoPlan
        /\ PlanScan(codec, "A", format, target).plan.kind = plan.kind
        /\ target = "*string" => scanErr = NilError
        /\ LET kept == ScanVia(plan, Codecs, format, src, target, dst, scanErr)
               rp == PlanScan(other, "B", format, target)
               new == ScanVia(rp.plan, StoreCodec(Codecs, "B", rp.codec),
                              format, src, target, fresh.dst, scanErr)
               op == IF target = "*string" THEN "ScanString" ELSE "ScanTextScanner"
           IN /\ plan' = kept.plan
              /\ codec' = kept.codecs.A
              /\ other' = new.codecs.B
              /\ dst' = kept.res.dst
              /\ last' = ScanRecord(op, format, src, target, plan, scanErr, kept.res)
              /\ fresh' = [call |-> ScanRecord(op, format, src, target, rp.plan, scanErr,
                                                  new.res),
                            dst |-> new.res.dst]
              /\ delivered' =
                    Delivered(src, op,
                              IF kept.res.panic THEN {}
                              ELSE IF target = "*string" THEN {kept.res.dst}
                              ELSE {kept.res.calls[i].String :
                                       i \in 1..Len(kept.res.calls)})
        /\ UNCHANGED <<decoded, requested, concVars, inst, jt, jtext, jback>>

\* Both callers decode the same source.
PlansDecodeValue ==
    \E format \in Formats, src \in Sources :
        LET a == DecodeValue(codec, format, src)
            b == DecodeValue(other, format, src)
        IN /\ codec' = StoreCodec(Codecs, "A", a.codec).A
           /\ other' = StoreCodec(Codecs, "B", b.codec).B
           /\ last' = DecodeRecord(format, src, a)
           /\ fresh' = [fresh EXCEPT !.call = DecodeRecord(format, src, b)]
           /\ delivered' = Delivered(src, "DecodeValue",
                                      IF a.panic THEN {} ELSE {a.val.str})
           /\ UNCHANGED <<dst, decoded, requested, concVars, inst, plan,
                          jt, jtext, jback>>

NextPlans ==
    \/ PlansResolve
    \/ PlansScan
    \/ PlansDecodeValue

SpecPlans == InitPlans /\ [][NextPlans]_vars

---------------------------------------------------------------------------
(* JSON interop of pgtype.Text.  A JSON document is the sequence of its    *)
(* bytes.                                                                  *)

MaxJSONLen == 2

Quote == 34
Backslash == 92
JSONBytes == {97, Quote, Backslash}

\* the document null
NullLiteral == <<110, 117, 108, 108>>

RECURSIVE JSONSeqsUpTo(_)
JSONSeqsUpTo(n) ==
    IF n = 0 THEN {<< >>}
    ELSE JSONSeqsUpTo(n - 1) \cup
         {Append(s, b) : s \in {t \in JSONSeqsUpTo(n - 1) : Len(t) = n - 1},
                         b \in JSONBytes}

\* The contents a Text is marshalled with; one of them spells null.
JSONContents == JSONSeqsUpTo(MaxJSONLen) \cup {NullLiteral}

JSONTexts == {Text(CallerString(b), v) : b \in JSONContents, v \in BOOLEAN}
               \cup {ZeroText}

\* Documents that arrive from elsewhere: a number, an unterminated string, a
\* string with an escape JSON does not have, null and two well-formed strings.
WireDocuments ==
    { <<49>>, <<Quote, 97>>, <<Quote, Backslash, 97, Quote>>, NullLiteral,
      <<Quote, 97, Quote>>, <<Quote, Backslash, Quote, Quote>> }

RECURSIVE EscapeJSON(_)
EscapeJSON(b) ==
    IF b = << >> THEN << >>
    ELSE IF Head(b) \in {Quote, Backslash}
         THEN <<Backslash, Head(b)>> \o EscapeJSON(Tail(b))
         ELSE <<Head(b)>> \o EscapeJSON(Tail(b))

\* The content between the quotes of a JSON string, or ok = FALSE.
RECURSIVE UnescapeJSON(_)
UnescapeJSON(b) ==
    IF b = << >> THEN [ok |-> TRUE, bytes |-> << >>]
    ELSE IF Head(b) = Quote THEN [ok |-> FALSE, bytes |-> << >>]
    ELSE IF Head(b) = Backslash
         THEN IF Len(b) >= 2 /\ b[2] \in {Quote, Backslash}
              THEN LET r == UnescapeJSON(Tail(Tail(b)))
                   IN [ok |-> r.ok, bytes |-> <<b[2]>> \o r.bytes]
              ELSE [ok |-> FALSE, bytes |-> << >>]
    ELSE LET r == UnescapeJSON(Tail(b))
         IN [ok |-> r.ok, bytes |-> <<Head(b)>> \o r.bytes]

JSONError == [isNil |-> FALSE, text |-> "json: cannot unmarshal", shape |-> ""]

\* A variant that writes the content between quotes as it is.
MarshalJSON_NoEscape(t) ==
    IF ~t.Valid THEN NullLiteral
    ELSE <<Quote>> \o t.String.content \o <<Quote>>

\* Text.MarshalJSON: null for a Text that is not Valid, else the JSON string
\* of String.
MarshalJSON(t) ==
    IF ~t.Valid THEN NullLiteral
    ELSE <<Quote>> \o EscapeJSON(t.String.content) \o <<Quote>>

\* Text.UnmarshalJSON: null gives Text{}, a JSON string gives its content
\* in a new string and Valid, anything else an error and the zero Text.
UnmarshalJSON(doc) ==
    IF doc = NullLiteral THEN [text |-> ZeroText, err |-> NilError]
    ELSE IF Len(doc) >= 2 /\ doc[1] = Quote /\ doc[Len(doc)] = Quote
    THEN LET r == UnescapeJSON(SubSeq(doc, 2, Len(doc) - 1))
         IN IF r.ok
            THEN [text |-> Text([content |-> r.bytes, ptr |-> <<"json", r.bytes>>], TRUE),
                  err |-> NilError]
            ELSE [text |-> ZeroText, err |-> JSONError]
    ELSE [text |-> ZeroText, err |-> JSONError]

InitJSON ==
    /\ InitSeq
    /\ InitConcIdle
    /\ InitExtraIdle

\* The application has a Text to marshal.
JSONSet ==
    \E t \in JSONTexts :
        /\ jt' = t
        /\ jtext' = NoDocument
        /\ jback' = NotUnmarshalled
        /\ UNCHANGED <<codec, seqVars, concVars, other, inst, plan, fresh, delivered>>

JSONMarshal ==
    /\ jtext' = [bytes |-> MarshalJSON(jt), from |-> "MarshalJSON"]
    /\ jback' = NotUnmarshalled
    /\ UNCHANGED <<codec, seqVars, concVars, other, inst, plan, fresh, delivered, jt>>

\* A document arrives that this program did not marshal.
JSONReceive ==
    \E doc \in WireDocuments :
        /\ jtext' = [bytes |-> doc, from |-> "wire"]
        /\ jback' = NotUnmarshalled
        /\ UNCHANGED <<codec, seqVars, concVars, other, inst, plan, fresh, delivered, jt>>

JSONUnmarshal ==
    /\ jtext.from # "none"
    /\ LET r == UnmarshalJSON(jtext.bytes)
       IN jback' = [text |-> r.text, err |-> r.err, done |-> TRUE]
    /\ UNCHANGED <<codec, seqVars, concVars, other, inst, plan, fresh, delivered,
                   jt, jtext>>

NextJSON ==
    \/ JSONSet
    \/ JSONMarshal
    \/ JSONReceive
    \/ JSONUnmarshal

SpecJSON == InitJSON /\ [][NextJSON]_vars

---------------------------------------------------------------------------
(* Claims *)

IsDecode(call) == call.op \in {"DecodeValue", "DecodeDatabaseSQLValue"}
IsStringScan(call) == call.op \in {"ScanString", "RoundTrip"}

\* C1: a decode of a non-NULL source returns no error and a string whose
\* content is exactly the source's bytes, whatever the cache held before.
C1_DecodeReturnsSourceContent ==
    (IsDecode(last) /\ ~last.src.isNil) =>
        /\ last.err.isNil
        /\ ~last.val.isNil
        /\ last.val.str.content = last.src.bytes

\* C2: all decodes of one byte content return one and the same instance, and
\* decodes of two different byte contents return distinct instances.
C2_DecodeInstances ==
    /\ \A b \in Contents : Cardinality(decoded[b]) <= 1
    /\ \A b1, b2 \in Contents :
          b1 # b2 => \A s1 \in decoded[b1], s2 \in decoded[b2] : s1 # s2

\* C3: encoding a string with the plain-string encode plan and scanning the
\* bytes into a plain-string destination succeeds and leaves the destination
\* equal to the string, for both format codes and any cache.
C3_RoundTrip ==
    last.op = "RoundTrip" =>
        /\ last.err.isNil
        /\ dst.content = last.value.content

\* C4: DecodeValue with a NULL source returns NULL and no error and leaves
\* the cache exactly as it was, an uninitialised cache included.
C4_NullDecodeLeavesCache ==
    [][(IsDecode(last') /\ last'.src.isNil) =>
          /\ last'.val.isNil
          /\ last'.err.isNil
          /\ codec' = codec]_vars

C4_Witness ==
    /\ last.op = "DecodeValue"
    /\ last.src.isNil
    /\ last.val.isNil
    /\ Keys(codec) # {}

\* C5: scanning a NULL source into a plain-string destination returns an
\* error that names the destination's shape and leaves the destination and
\* the cache unchanged.
C5_NullScanIntoString ==
    [][(last'.op = "ScanString" /\ last'.src.isNil) =>
          /\ ~last'.err.isNil
          /\ last'.err.shape = "*string"
          /\ dst' = dst
          /\ codec' = codec]_vars

C5_Witness ==
    /\ last.op = "ScanString"
    /\ last.src.isNil
    /\ ~last.err.isNil
    /\ dst = CallerString(<<97, 98>>)

\* C6: a scan into a text-consuming destination calls its method exactly
\* once: with Valid false and empty content for a NULL source, the cache
\* untouched, and with Valid true and the source's bytes as content otherwise.
C6_TextScannerCall ==
    [][(last'.op = "ScanTextScanner") =>
          /\ Len(last'.calls) = 1
          /\ IF last'.src.isNil
             THEN last'.calls[1] = ZeroText /\ codec' = codec
             ELSE /\ last'.calls[1].Valid
                  /\ last'.calls[1].String.content = last'.src.bytes]_vars

\* C7: a present source of length zero is the empty string, never NULL: a
\* decode returns the empty string, a plain-string scan succeeds and sets the
\* empty string, a text-consuming destination is called with Valid true and
\* empty content; exactly the absent buffer takes the NULL paths.
C7_EmptyIsNotNull ==
    /\ IsDecode(last) =>
          /\ last.val.isNil <=> last.src.isNil
          /\ last.src = Slice(<< >>) => last.val.str.content = << >>
    /\ IsStringScan(last) =>
          /\ ~last.err.isNil <=> last.src.isNil
          /\ last.src = Slice(<< >>) => dst.content = << >>
    /\ last.op = "ScanTextScanner" =>
          /\ ~last.calls[1].Valid <=> last.src.isNil
          /\ last.src = Slice(<< >>) => last.calls[1].String.content = << >>

C7_Witness ==
    /\ last.op = "DecodeValue"
    /\ last.src = Slice(<< >>)
    /\ last.val = StringValue(ZeroString)
    /\ << >> \in Keys(codec)

\* C8: in every step every key of the cache stays a key and keeps the
\* instance it maps to.
C8_CacheOnlyGrows ==
    [][\A k \in Keys(codec) :
          /\ k \in Keys(codec')
          /\ codec'.membersMap.m[k] = codec.membersMap.m[k]]_vars

C8_Witness ==
    /\ Keys(codec) # {}
    /\ Cardinality(requested) >= 2

\* C9: the keys of the cache are exactly the contents that were decoded or
\* scanned through an interning plan with a non-NULL source.
C9_KeysAreRequestedContents ==
    Keys(codec) = requested

\* Both flows decoded the same content, both missed the lookup and both
\* wrote the cache.
BothMissedAndWrote ==
    /\ flows[1].src = flows[2].src
    /\ \A f \in Flows :
          /\ flows[f].pc \in {"return", "unlock", "done"}
          /\ ~flows[f].found
          /\ flows[f].wrote

\* C10: when two flows decode the same content, not yet cached, on one shared
\* codec, both can miss the lookup and both write the cache if nothing
\* coordinates them; with lookup-and-insert under a mutex no such state is
\* reachable.
C10_MutexExcludesDoubleMiss ==
    sync = "mutex" => ~BothMissedAndWrote

\* C11: FormatSupported, PreferredFormat, PlanEncode and PlanScan leave the
\* cache as it is; a step changes the cache only if it is a decode or a scan
\* through a plain-string or text-consuming plan, with a non-NULL source.
C11_OnlyDecodeAndScanChangeCache ==
    [][/\ last'.op \in {"FormatSupported", "PreferredFormat", "PlanEncode", "PlanScan"}
            => codec' = codec
       /\ codec' # codec =>
            /\ IsDecode(last') \/ IsStringScan(last') \/ last'.op = "ScanTextScanner"
            /\ ~last'.src.isNil]_vars

C11_Witness ==
    /\ last.op = "PlanScan"
    /\ last.plan = Plan("scanPlanTextAnyToEnumString", "A")
    /\ codec = NewEnumCodec

\* C12: the plan resolved for a byte-sequence destination is the plan that
\* does not intern, and a scan of any source through it leaves the cache
\* unchanged.
C12_ByteSliceScanBypassesCache ==
    [][last'.op = "ScanByteSlice" =>
          /\ last'.plan = Plan("scanPlanAnyToNewByteSlice", "none")
          /\ ~last'.panic
          /\ last'.bytes = last'.src
          /\ codec' = codec]_vars

C12_Witness ==
    /\ last.op = "ScanByteSlice"
    /\ last.src = Slice(<< >>)
    /\ last.bytes = Slice(<< >>)
    /\ << >> \in Keys(codec)

\* C13: a call on one codec instance leaves the cache of the other instance
\* as it is, so each cache is the result of the calls on its own instance.
C13_InstancesAreIndependent ==
    [][/\ inst' = "A" => other' = other
       /\ inst' = "B" => codec' = codec]_vars

C13_Witness ==
    /\ inst = "A"
    /\ ~last.src.isNil
    /\ Keys(codec) # {}
    /\ other = NewEnumCodec

\* The plan types of the four value shapes PlanEncode knows, in its order.
EncodePlanOf(shape) ==
    CASE shape = "string" -> "encodePlanTextCodecString"
      [] shape = "[]uint8" -> "encodePlanTextCodecByteSlice"
      [] shape = "int32" -> "encodePlanTextCodecRune"
      [] shape = "TextValuer" -> "encodePlanTextCodecTextValuer"
      [] OTHER -> "nil"

\* C14: PlanEncode returns a plan exactly for the formats Text and Binary
\* and the shapes plain string, byte sequence, single character and
\* text-producing capability, the plan of that shape; for anything else it
\* returns no plan, and it never returns an error.
C14_PlanEncodeDispatch ==
    last.op = "PlanEncode" =>
        /\ last.plan.kind =
              (IF last.format \in {0, 1} THEN EncodePlanOf(last.shape) ELSE "nil")
        /\ last.err.isNil
        /\ ~last.panic

C14_Witness ==
    /\ last.op = "PlanEncode"
    /\ last.format = 1
    /\ last.shape = "TextValuer"
    /\ last.plan.kind = "encodePlanTextCodecTextValuer"

\* The plan types of the four target shapes PlanScan knows, in its order.
ScanPlanOf(shape) ==
    CASE shape = "*string" -> "scanPlanTextAnyToEnumString"
      [] shape = "*[]uint8" -> "scanPlanAnyToNewByteSlice"
      [] shape = "TextScanner" -> "scanPlanTextAnyToEnumTextScanner"
      [] shape = "*int32" -> "scanPlanTextAnyToRune"
      [] OTHER -> "nil"

\* C15: PlanScan returns a plan exactly for the formats Text and Binary,
\* which are the formats FormatSupported accepts, and the target shapes plain
\* string, byte sequence, text-consuming capability and single character; the
\* plans of plain-string and text-consuming targets point at this codec.
C15_PlanScanDispatch ==
    /\ last.op = "PlanScan" =>
          /\ last.plan.kind =
                (IF last.format \in {0, 1} THEN ScanPlanOf(last.shape) ELSE "nil")
          /\ last.plan.codec =
                (IF last.plan.kind \in {"scanPlanTextAnyToEnumString",
                                        "scanPlanTextAnyToEnumTextScanner"}
                 THEN "A" ELSE "none")
          /\ last.plan # NoPlan => FormatSupported(last.format)
    /\ last.op = "FormatSupported" => (last.bool <=> last.format \in {0, 1})

C15_Witness ==
    /\ last.op = "PlanScan"
    /\ last.format = 1
    /\ last.shape = "TextScanner"
    /\ last.plan = Plan("scanPlanTextAnyToEnumTextScanner", "A")

\* C16: every decode, and every scan into a destination of the shape its plan
\* was resolved for, returns (a result or an error) and does not panic, from
\* any cache, the never-initialised one included; a text-consuming scan
\* returns the error its destination's method returned.
C16_NoPanic ==
    /\ (IsDecode(last) \/ IsStringScan(last)
           \/ last.op \in {"ScanTextScanner", "ScanByteSlice"}) => ~last.panic
    /\ last.op = "ScanTextScanner" => last.err = last.scanErr

C16_Witness ==
    /\ last.op = "ScanTextScanner"
    /\ ~last.src.isNil
    /\ last.scanErr = ScannerError
    /\ last.err = ScannerError
    /\ Len(last.calls) = 1

\* C17: MarshalJSON gives the document null exactly for a Text that is not
\* Valid; unmarshalling what MarshalJSON gave returns, without error, the
\* Text itself (same content, Valid) when it was Valid and the zero Text when
\* it was not.
C17_JSONRoundTrip ==
    jtext.from = "MarshalJSON" =>
        /\ jtext.bytes = NullLiteral <=> ~jt.Valid
        /\ jback.done =>
              /\ jback.err.isNil
              /\ IF jt.Valid
                 THEN /\ jback.text.Valid
                      /\ jback.text.String.content = jt.String.content
                 ELSE jback.text = ZeroText

C17_Witness ==
    /\ jt = Text(CallerString(<<Quote, Backslash>>), TRUE)
    /\ jtext = [bytes |-> <<Quote, Backslash, Quote, Backslash, Backslash, Quote>>,
                from |-> "MarshalJSON"]
    /\ jback.done
    /\ jback.err.isNil
    /\ jback.text.Valid

\* C18: scanning through one kept plan gives, scan by scan, the results and
\* the cache that resolving a new plan before every scan gives; and all
\* paths (DecodeValue, plain-string plan, text-consuming plan) hand out one
\* and the same instance for one content.
C18_PlanReuse ==
    /\ last.op # "PlanScan" =>
          /\ [last EXCEPT !.plan = NoPlan] = [fresh.call EXCEPT !.plan = NoPlan]
          /\ dst = fresh.dst
    /\ codec = other
    /\ \A b \in Contents : Cardinality(delivered[b].strs) <= 1

C18_Witness ==
    /\ plan = Plan("scanPlanTextAnyToEnumTextScanner", "A")
    /\ last.op = "ScanTextScanner"
    /\ last.src = Slice(<< >>)
    /\ last.calls = <<Text(ZeroString, TRUE)>>
    /\ << >> \in Keys(codec)
    /\ delivered[<< >>].first = "DecodeValue"
    /\ \A b \in Contents \ {<< >>} : delivered[b].first = "ScanString"

\* C19: every entry of the cache maps its key to a value whose content is
\* the key.
C19_CacheIsIdentityOnContent ==
    \A k \in Keys(codec) : codec.membersMap.m[k].content = k

C19_Witness ==
    /\ IsDecode(last)
    /\ last.src = Slice(<<97>>)
    /\ Keys(codec) # {}

====
